---- MODULE Spec2Model ----
(***************************************************************************)
(* State machine of the gptree-gui front end: the selection / exclusion    *)
(* reconciliation of App + DirectoryTree and the configuration profile     *)
(* state machine (load, edit, save, reset, mode switch), with the          *)
(* asynchronous backend calls as separate steps.  Every handler runs with  *)
(* the React state of the render that created it (its closure, field cl    *)
(* of a task); refs (originalConfigRef, selectionToRestoreRef) are read    *)
(* and written live.                                                       *)
(***************************************************************************)
EXTENDS Naturals, Sequences, FiniteSets, TLC

VARIABLES
  currentDirectory,          \* useState<string>: <<>> is ""
  directoryTree,             \* id of the loaded tree snapshot, "none" is null
  selectedFiles,             \* useState<string[]>: absolute paths
  localSelectedFiles,        \* DirectoryTree's useState<Set<string>> (insertion order)
  sessionOnlyExcludedDirs,   \* useState<Set<string>>: relative paths, insertion order
  config,                    \* active (in-edit) profile, None or Some(c)
  globalConfig,              \* loaded global profile
  localConfig,               \* loaded local profile
  configMode,                \* "global" | "local"
  isConfigPanelDirty,        \* boolean
  originalConfigRef,         \* ref: profile before edits
  settings,                  \* AppSettings.defaultToLocalConfig
  initialConfigModePreference, \* "none" | "global" | "local"
  selectionToRestoreRef,     \* ref: None or Some(selection)
  loading,                   \* boolean
  disk,                      \* profile store: [global, local], each None or Some(profile)
  tasks,                     \* handlers suspended at an await or a timer
  op                         \* what the last step was (history)

vars == <<currentDirectory, directoryTree, selectedFiles, localSelectedFiles,
          sessionOnlyExcludedDirs, config, globalConfig, localConfig, configMode,
          isConfigPanelDirty, originalConfigRef, settings,
          initialConfigModePreference, selectionToRestoreRef, loading, disk,
          tasks, op>>

-----------------------------------------------------------------------------
(* Values *)

None == <<>>
Some(x) == <<x>>
Get(o) == o[1]

\* Paths are sequences of components; an absolute path starts with "/".
Root == <<"/", "root">>
FileA == <<"/", "root", "a.txt">>
DirSub == <<"/", "root", "sub">>
FileB == <<"/", "root", "sub", "b.txt">>
DirDeep == <<"/", "root", "sub", "deep">>
FileC == <<"/", "root", "sub", "deep", "c.txt">>

IsPrefix(p, q) == Len(p) <= Len(q) /\ SubSeq(q, 1, Len(p)) = p
IsProperPrefix(p, q) == Len(p) < Len(q) /\ SubSeq(q, 1, Len(p)) = p

\* path.startsWith(currentDirectory + '/') ? path.substring(len + 1) : path
MakeRelative(path, cd) ==
  IF cd = <<>>
    THEN IF Len(path) > 0 /\ path[1] = "/" THEN SubSeq(path, 2, Len(path)) ELSE path
    ELSE IF IsProperPrefix(cd, path) THEN SubSeq(path, Len(cd) + 1, Len(path))
         ELSE path

\* `${currentDirectory}/${file}`
MakeAbsolute(rel, cd) == cd \o rel

\* A CSV string is held as the list of its trimmed split(',') tokens; the
\* blank token is <<>>, so the string "" is << <<>> >>.
Blank == <<>>
EmptyCsv == <<Blank>>

RECURSIVE Dedup(_)
Dedup(s) ==
  IF s = <<>> THEN <<>>
  ELSE LET h == s[1]
           IsOther(x) == x # h
       IN <<h>> \o Dedup(SelectSeq(Tail(s), IsOther))

Range(s) == {s[i] : i \in DOMAIN s}

NonBlank(t) == t # Blank

\* csv.split(',').map(s => s.trim()).filter(Boolean)
SplitCsv(csv) == SelectSeq(csv, NonBlank)

\* array.join(',')
JoinCsv(arr) == IF arr = <<>> THEN EmptyCsv ELSE arr

\* new Set(csvString.split(',').map(s => s.trim()).filter(Boolean))
configStringToSet(csv) == Range(SplitCsv(csv))

\* Array.from(new Set(list)): first occurrences, in order
SetOrder(list) == Dedup(list)

-----------------------------------------------------------------------------
(* Tree snapshots the scanner can return *)

Leaf == [is_dir |-> FALSE, children |-> <<>>]
Dir(ch) == [is_dir |-> TRUE, children |-> ch]

\* root{a.txt, sub/{b.txt}}
TreeFull == (Root :> Dir(<<FileA, DirSub>>)) @@ (FileA :> Leaf)
            @@ (DirSub :> Dir(<<FileB>>)) @@ (FileB :> Leaf)
\* the same project after b.txt has disappeared (or is filtered out)
TreeLess == (Root :> Dir(<<FileA, DirSub>>)) @@ (FileA :> Leaf)
            @@ (DirSub :> Dir(<<>>))

\* a project with a folder inside sub: root{a.txt, sub/{b.txt, deep/{c.txt}}}
TreeDeep == (Root :> Dir(<<FileA, DirSub>>)) @@ (FileA :> Leaf)
            @@ (DirSub :> Dir(<<FileB, DirDeep>>)) @@ (FileB :> Leaf)
            @@ (DirDeep :> Dir(<<FileC>>)) @@ (FileC :> Leaf)

\* the folder sub opened as a project of its own: sub{b.txt}
TreeSub == (DirSub :> Dir(<<FileB>>)) @@ (FileB :> Leaf)

TreeIds == {"full", "less"}
TreeOf(id) ==
  IF id = "full" THEN TreeFull
  ELSE IF id = "deep" THEN TreeDeep
  ELSE IF id = "sub" THEN TreeSub
  ELSE TreeLess

\* the root node of a tree, and the trees load_directory can answer with for
\* a directory
TreeRoot(id) == IF id = "sub" THEN DirSub ELSE Root
TreeIdsAt(dirPath) == IF dirPath = DirSub THEN {"sub"} ELSE TreeIds
\* the directories the directory dialog can answer with
ProjectDirs == {Root, DirSub}

AllFiles == {FileA, FileB, FileC}
AllDirs == {Root, DirSub, DirDeep}

RECURSIVE getDescendantFilesBug(_, _, _, _)
RECURSIVE ConcatChildrenBug(_, _, _, _, _)
ConcatChildrenBug(tree, ch, i, excl, cd) ==
  IF i > Len(ch) THEN <<>>
  ELSE getDescendantFilesBug(tree, ch[i], excl, cd)
       \o ConcatChildrenBug(tree, ch, i + 1, excl, cd)
getDescendantFilesBug(tree, item, excl, cd) ==
  IF /\ tree[item].is_dir /\ MakeRelative(item, cd) \in excl
     /\ \A i \in DOMAIN tree[item].children :
          MakeRelative(tree[item].children[i], cd) \notin excl
    THEN <<>>
  ELSE IF ~tree[item].is_dir THEN <<item>>
  ELSE ConcatChildrenBug(tree, tree[item].children, 1, excl, cd)

RECURSIVE getDescendantFiles(_, _, _, _)
RECURSIVE ConcatChildren(_, _, _, _, _)
ConcatChildren(tree, ch, i, excl, cd) ==
  IF i > Len(ch) THEN <<>>
  ELSE getDescendantFiles(tree, ch[i], excl, cd)
       \o ConcatChildren(tree, ch, i + 1, excl, cd)

getDescendantFiles(tree, item, excl, cd) ==
  IF tree[item].is_dir /\ MakeRelative(item, cd) \in excl THEN <<>>
  ELSE IF ~tree[item].is_dir THEN <<item>>
  ELSE ConcatChildren(tree, tree[item].children, 1, excl, cd)

\* relativeFilePath.startsWith(excludedDir + '/') || relativeFilePath === excludedDir
IsUnderExcludedDir(path, excl, cd) ==
  LET rel == MakeRelative(path, cd)
  IN \E d \in excl : IsProperPrefix(d, rel) \/ rel = d

-----------------------------------------------------------------------------
(* Profiles *)

\* The profile fields the engine reads.  include_file_types stands for the
\* filtering fields of the panel (the file type lists and the ignore flags),
\* store_files_chosen for the fields that do not filter.
defaultConfig ==
  [include_file_types |-> "*", store_files_chosen |-> TRUE,
   previous_files |-> <<>>, exclude_dirs |-> EmptyCsv]

IncludeValues == {"*", "py"}
EditFields == {"include_file_types", "store_files_chosen"}
FieldValues(f) == IF f = "include_file_types" THEN IncludeValues ELSE BOOLEAN

\* Profiles on disk keep exclude_dirs as an array.
DiskDefault == [defaultConfig EXCEPT !.exclude_dirs = <<>>]
DiskGlobal0 == [DiskDefault EXCEPT !.exclude_dirs = << <<"sub">> >>]
DiskLocal0 == [DiskDefault EXCEPT !.previous_files = << <<"sub", "b.txt">> >>]

\* fetchConfigs.transformConfig: an array exclude_dirs is joined
transformConfig(o) ==
  IF o = None THEN None
  ELSE Some([Get(o) EXCEPT !.exclude_dirs = JoinCsv(@)])

\* handleSaveConfig.configToSend
configToSend(c) == [c EXCEPT !.exclude_dirs = SplitCsv(@)]

ExcludeDirsOf(o) == IF o = None THEN {} ELSE configStringToSet(Get(o).exclude_dirs)

\* getEffectiveExcludedDirs for a render with this config and session set
EffectiveExcludedDirs(cfg, session) == ExcludeDirsOf(cfg) \cup Range(session)

getEffectiveExcludedDirs == EffectiveExcludedDirs(config, sessionOnlyExcludedDirs)

\* JSON.stringify(updatedConfig) !== JSON.stringify(originalConfigRef.current)
IsNowDirtyBug(updated, original, field) ==
  IF original = None THEN TRUE ELSE updated[field] # Get(original)[field]
IsNowDirty(updated, original, field) ==
  IF original = None THEN TRUE ELSE updated # Get(original)

\* handleSaveConfig.fileFilteringChanged
fileFilteringChangedBug(c, cmp) ==
  cmp # None /\ c # Get(cmp)
fileFilteringChanged(c, cmp) ==
  /\ cmp # None
  /\ \/ c.include_file_types # Get(cmp).include_file_types
     \/ c.exclude_dirs # Get(cmp).exclude_dirs

-----------------------------------------------------------------------------
(* Renders and closures *)

\* The state a handler created by the current render sees.
Closure ==
  [config |-> config, isConfigPanelDirty |-> isConfigPanelDirty,
   configMode |-> configMode, session |-> sessionOnlyExcludedDirs,
   globalConfig |-> globalConfig, localConfig |-> localConfig,
   selectedFiles |-> selectedFiles, currentDirectory |-> currentDirectory,
   settings |-> settings]

NoTree == "none"
Mounted == currentDirectory # <<>> /\ directoryTree # NoTree

\* handleFileSelection's filter
FilterSelection(files, excl, cd) ==
  LET Keep(f) == ~IsUnderExcludedDir(f, excl, cd)
  IN SelectSeq(files, Keep)

\* DirectoryTree's two effects after a render of App.  Both run when the
\* selectedFiles (or tree) prop is a new value and the second one wins; the
\* first runs alone otherwise, as effectiveExcludedDirs is a new Set each render.
LocalAfterRender(propChanged) ==
  IF ~Mounted' THEN <<>>
  ELSE IF propChanged \/ ~Mounted THEN SetOrder(selectedFiles')
  ELSE SetOrder(FilterSelection(selectedFiles',
                   EffectiveExcludedDirs(config', sessionOnlyExcludedDirs'),
                   currentDirectory'))

cfgVars == <<config, globalConfig, localConfig, configMode, isConfigPanelDirty,
             originalConfigRef>>
envVars == <<settings, initialConfigModePreference, disk>>
treeVars == <<currentDirectory, directoryTree>>

Init ==
  /\ currentDirectory = <<>>
  /\ directoryTree = NoTree
  /\ selectedFiles = <<>>
  /\ localSelectedFiles = <<>>
  /\ sessionOnlyExcludedDirs = <<>>
  /\ config = None
  /\ globalConfig = None
  /\ localConfig = None
  /\ configMode = "global"
  /\ isConfigPanelDirty = FALSE
  /\ originalConfigRef = None
  /\ settings \in BOOLEAN
  /\ initialConfigModePreference \in {"none", "global", "local"}
  /\ selectionToRestoreRef = None
  /\ loading = FALSE
  /\ disk \in [global : {None, Some(DiskGlobal0)}, local : {None, Some(DiskLocal0)}]
  /\ tasks = <<>>
  /\ op = "init"

-----------------------------------------------------------------------------
(* DirectoryTree: selection handlers *)

CurTree == TreeOf(directoryTree)
FilesInTree == AllFiles \cap DOMAIN CurTree
DirsInTree == AllDirs \cap DOMAIN CurTree

InSeq(x, s) == \E i \in DOMAIN s : s[i] = x
Remove(s, x) == LET Other(y) == y # x IN SelectSeq(s, Other)
RemoveAll(s, d) == LET Keep(y) == ~InSeq(y, d) IN SelectSeq(s, Keep)
\* Set.add of each element of d, in order
AddAll(s, d) == s \o RemoveAll(SetOrder(d), s)

\* App.handleFileSelection: the value given to setSelectedFiles
handleFileSelection(files) ==
  FilterSelection(files, getEffectiveExcludedDirs, currentDirectory)

getFolderSelectionStateBug(folder, cur) ==
  LET d == getDescendantFiles(CurTree, folder, getEffectiveExcludedDirs, currentDirectory)
      InCur(f) == InSeq(f, cur)
  IN IF Len(SelectSeq(d, InCur)) = Len(d) THEN "checked"
     ELSE IF Len(SelectSeq(d, InCur)) = 0 THEN "unchecked"
     ELSE "indeterminate"
getFolderSelectionState(folder, cur) ==
  LET d == getDescendantFiles(CurTree, folder, getEffectiveExcludedDirs, currentDirectory)
      InCur(f) == InSeq(f, cur)
      selectedCount == Len(SelectSeq(d, InCur))
  IN IF Len(d) = 0 THEN "unchecked"
     ELSE IF selectedCount = 0 THEN "unchecked"
     ELSE IF selectedCount = Len(d) THEN "checked"
     ELSE "indeterminate"

allFilePathsInTree ==
  getDescendantFiles(CurTree, TreeRoot(directoryTree), getEffectiveExcludedDirs,
                     currentDirectory)

selectAllCheckedBug == Len(selectedFiles) # 0
selectAllChecked ==
  IF Len(allFilePathsInTree) = 0 THEN FALSE
  ELSE IF Len(selectedFiles) = 0 THEN FALSE
  ELSE \A i \in DOMAIN allFilePathsInTree :
         InSeq(allFilePathsInTree[i], localSelectedFiles)

\* renderTreeItem: an item is drawn when no folder above it is excluded
Rendered(item) ==
  \A d \in DirsInTree :
    IsProperPrefix(d, item) =>
      MakeRelative(d, currentDirectory) \notin getEffectiveExcludedDirs

\* onFileSelection(files) followed by the render it causes
SelectAndRender(files) ==
  /\ selectedFiles' = handleFileSelection(files)
  /\ UNCHANGED <<sessionOnlyExcludedDirs, cfgVars, envVars, treeVars,
                 selectionToRestoreRef, loading, tasks>>
  /\ localSelectedFiles' = LocalAfterRender(TRUE)

Skip(label) ==
  /\ op' = label
  /\ UNCHANGED <<currentDirectory, directoryTree, selectedFiles, localSelectedFiles,
                 sessionOnlyExcludedDirs, config, globalConfig, localConfig,
                 configMode, isConfigPanelDirty, originalConfigRef, settings,
                 initialConfigModePreference, selectionToRestoreRef, loading,
                 disk, tasks>>

\* toggleFileSelection: the early return for a path under an excluded folder
ToggleRejectedBug(path) == FALSE
ToggleRejected(path) ==
  IsUnderExcludedDir(path, getEffectiveExcludedDirs, currentDirectory)

\* toggleFileSelection: next, the set built from prev
ToggledFiles(prev, path) ==
  IF InSeq(path, prev) THEN Remove(prev, path) ELSE Append(prev, path)

toggleFileSelection(path) ==
  /\ Mounted
  /\ path \in FilesInTree
  /\ IF ToggleRejected(path)
       THEN Skip("toggle_file_rejected")
       ELSE /\ op' = "toggle_file"
            /\ SelectAndRender(ToggledFiles(localSelectedFiles, path))

toggleFolderSelection(folder) ==
  /\ Mounted
  /\ folder \in DirsInTree
  /\ Rendered(folder)
  /\ MakeRelative(folder, currentDirectory) \notin getEffectiveExcludedDirs
  /\ LET d == getDescendantFiles(CurTree, folder, getEffectiveExcludedDirs,
                                 currentDirectory)
     IN IF Len(d) = 0
          THEN Skip("toggle_folder_empty")
          ELSE /\ op' = "toggle_folder"
               /\ SelectAndRender(
                    IF getFolderSelectionState(folder, localSelectedFiles) = "checked"
                      THEN RemoveAll(localSelectedFiles, d)
                      ELSE AddAll(localSelectedFiles, d))

toggleSelectAll ==
  /\ Mounted
  /\ Len(allFilePathsInTree) # 0
  /\ op' = "select_all"
  /\ SelectAndRender(IF selectAllChecked THEN <<>> ELSE allFilePathsInTree)

\* the "Use Previous Selection" button
usePreviousSelection ==
  /\ Mounted
  /\ ~loading
  /\ config # None /\ Get(config).store_files_chosen
  /\ localConfig # None /\ Len(Get(localConfig).previous_files) > 0
  /\ op' = "use_previous"
  /\ selectedFiles' =
       [i \in DOMAIN Get(localConfig).previous_files |->
          MakeAbsolute(Get(localConfig).previous_files[i], currentDirectory)]
  /\ UNCHANGED <<sessionOnlyExcludedDirs, cfgVars, envVars, treeVars,
                 selectionToRestoreRef, loading, tasks>>
  /\ localSelectedFiles' = LocalAfterRender(TRUE)

\* a render of App that no handler of the model causes (message timers, theme)
rerender ==
  /\ Mounted
  /\ op' = "rerender"
  /\ UNCHANGED <<selectedFiles, sessionOnlyExcludedDirs, cfgVars, envVars, treeVars,
                 selectionToRestoreRef, loading, tasks>>
  /\ localSelectedFiles' = LocalAfterRender(FALSE)

-----------------------------------------------------------------------------
(* App: configuration edits *)

\* handleConfigChange(field, value): the new (config, isConfigPanelDirty)
handleConfigChange(field, value) ==
  IF config = None
    THEN /\ config' = config
         /\ isConfigPanelDirty' = isConfigPanelDirty
    ELSE LET updatedConfig == [Get(config) EXCEPT ![field] = value]
         IN /\ config' = Some(updatedConfig)
            /\ isConfigPanelDirty' = IsNowDirty(updatedConfig, originalConfigRef, field)

\* A change event of an input of ConfigPanel: the value is a new one.
EditLabel(field) ==
  IF field = "include_file_types" THEN "edit_include" ELSE "edit_store"

ConfigPanelEdit(field, value) ==
  /\ currentDirectory # <<>>
  /\ config # None
  /\ ~loading
  /\ Get(config)[field] # value
  /\ op' = EditLabel(field)
  /\ handleConfigChange(field, value)
  /\ UNCHANGED <<selectedFiles, sessionOnlyExcludedDirs, globalConfig, localConfig,
                 configMode, originalConfigRef, envVars, treeVars,
                 selectionToRestoreRef, loading, tasks>>
  /\ localSelectedFiles' = LocalAfterRender(FALSE)

handleResetConfigBug ==
  /\ currentDirectory # <<>>
  /\ config # None
  /\ isConfigPanelDirty
  /\ ~loading
  /\ op' = "reset"
  /\ isConfigPanelDirty' = FALSE
  /\ UNCHANGED <<selectedFiles, sessionOnlyExcludedDirs, config, globalConfig,
                 localConfig, configMode, originalConfigRef, envVars, treeVars,
                 selectionToRestoreRef, loading, tasks>>
  /\ localSelectedFiles' = LocalAfterRender(FALSE)
\* The Reset button of ConfigPanel, shown while isDirty
handleResetConfig ==
  /\ currentDirectory # <<>>
  /\ config # None
  /\ isConfigPanelDirty
  /\ ~loading
  /\ op' = "reset"
  /\ config' = IF originalConfigRef # None THEN originalConfigRef ELSE config
  /\ isConfigPanelDirty' = FALSE
  /\ UNCHANGED <<selectedFiles, sessionOnlyExcludedDirs, globalConfig, localConfig,
                 configMode, originalConfigRef, envVars, treeVars,
                 selectionToRestoreRef, loading, tasks>>
  /\ localSelectedFiles' = LocalAfterRender(FALSE)

\* handleToggleUIDirectoryExclusion, the path is in config.exclude_dirs: the
\* profile in edit loses it
PersistedToggle(relativePath) ==
  /\ op' = "toggle_persisted"
  /\ handleConfigChange("exclude_dirs",
       JoinCsv(Remove(SetOrder(SplitCsv(Get(config).exclude_dirs)), relativePath)))
  /\ sessionOnlyExcludedDirs' = Remove(sessionOnlyExcludedDirs, relativePath)

\* handleToggleUIDirectoryExclusion, the path is not in config.exclude_dirs:
\* the session set is toggled
SessionToggleBug(relativePath) ==
  /\ op' = "toggle_session"
  /\ sessionOnlyExcludedDirs' =
       IF InSeq(relativePath, sessionOnlyExcludedDirs)
         THEN Remove(sessionOnlyExcludedDirs, relativePath)
         ELSE Append(sessionOnlyExcludedDirs, relativePath)
  /\ isConfigPanelDirty' = (config # None)
  /\ UNCHANGED config
SessionToggle(relativePath) ==
  /\ op' = "toggle_session"
  /\ sessionOnlyExcludedDirs' =
       IF InSeq(relativePath, sessionOnlyExcludedDirs)
         THEN Remove(sessionOnlyExcludedDirs, relativePath)
         ELSE Append(sessionOnlyExcludedDirs, relativePath)
  /\ UNCHANGED <<config, isConfigPanelDirty>>

handleToggleUIDirectoryExclusion(dirPath) ==
  /\ Mounted
  /\ dirPath \in DirsInTree
  /\ Rendered(dirPath)
  /\ LET relativePath == MakeRelative(dirPath, currentDirectory)
         configExcludesSet == ExcludeDirsOf(config)
     IN IF relativePath \in configExcludesSet
          THEN PersistedToggle(relativePath)
          ELSE SessionToggle(relativePath)
  /\ UNCHANGED <<selectedFiles, globalConfig, localConfig, configMode,
                 originalConfigRef, envVars, treeVars, selectionToRestoreRef,
                 loading, tasks>>
  /\ localSelectedFiles' = LocalAfterRender(FALSE)

-----------------------------------------------------------------------------
(* Profile store (backend), at its boundary *)

\* get_configs: the profiles that exist
BackendGetConfigs(d) == d

\* set_config_mode: a profile the mode lacks is written with default values
BackendSetConfigMode(d, mode) ==
  [d EXCEPT ![mode] = IF @ = None THEN Some(DiskDefault) ELSE @]

\* update_config: the profile of the mode is replaced by the one sent
BackendUpdateConfig(d, mode, sent) == [d EXCEPT ![mode] = Some(sent)]

-----------------------------------------------------------------------------
(* Suspended handlers *)

Task(kind, pc, cl) ==
  [kind |-> kind, pc |-> pc, cl |-> cl, pref |-> "none", prefer |-> FALSE,
   mode |-> "global", tree |-> NoTree, fg |-> None, fl |-> None, cmp |-> None,
   caller |-> "user"]

ReplaceAt(s, i, x) == [s EXCEPT ![i] = x]
RemoveAt(s, i) == SubSeq(s, 1, i - 1) \o SubSeq(s, i + 1, Len(s))

\* loadDirectory(path, currentSettings, modePreference) up to its first await,
\* called by a handler whose closure is cl
LoadTask(cl, prefer, pref, caller) ==
  [Task("load", "tree", cl) EXCEPT !.prefer = prefer, !.pref = pref,
                                   !.caller = caller]

\* fetchConfigs: initialMode
ChooseModeBug(pref, globalExists, localExists, preferLocal) ==
  IF pref = "local" THEN "local"
  ELSE IF pref = "global" THEN "global"
  ELSE IF preferLocal THEN (IF localExists THEN "local" ELSE "global")
  ELSE (IF globalExists THEN "global" ELSE "local")
ChooseMode(pref, globalExists, localExists, preferLocal) ==
  IF pref = "local" /\ localExists THEN "local"
  ELSE IF pref = "global" /\ globalExists THEN "global"
  ELSE IF preferLocal THEN (IF localExists THEN "local" ELSE "global")
  ELSE (IF globalExists THEN "global" ELSE "local")

\* handleSelectDirectory, with the directory dialog answered
handleSelectDirectoryAt(dirPath) ==
  /\ ~loading
  /\ op' = "open"
  /\ currentDirectory' = dirPath
  /\ sessionOnlyExcludedDirs' = <<>>
  /\ loading' = TRUE
  /\ tasks' = Append(tasks, LoadTask(Closure, settings, initialConfigModePreference, "user"))
  /\ UNCHANGED <<directoryTree, selectedFiles, cfgVars, envVars, selectionToRestoreRef>>
  /\ localSelectedFiles' = LocalAfterRender(FALSE)

\* the dialog answered with the directory of the modelled project
handleSelectDirectory == handleSelectDirectoryAt(Root)

handleRefreshDirectoryTree ==
  /\ Mounted
  /\ ~loading
  /\ op' = "refresh"
  /\ sessionOnlyExcludedDirs' = <<>>
  /\ loading' = TRUE
  /\ tasks' = Append(tasks, LoadTask(Closure, settings, configMode, "refresh"))
  /\ UNCHANGED <<treeVars, selectedFiles, cfgVars, envVars, selectionToRestoreRef>>
  /\ localSelectedFiles' = LocalAfterRender(FALSE)

\* load_directory answered with a tree: setDirectoryTree, then fetchConfigs
\* up to get_configs
LoadTreeOk(i, t) ==
  /\ tasks[i].kind = "load" /\ tasks[i].pc = "tree"
  /\ op' = "tree_ok"
  /\ directoryTree' = t
  /\ tasks' = ReplaceAt(tasks, i, [tasks[i] EXCEPT !.pc = "configs", !.tree = t])
  /\ UNCHANGED <<currentDirectory, selectedFiles, sessionOnlyExcludedDirs, cfgVars,
                 envVars, selectionToRestoreRef, loading>>
  /\ localSelectedFiles' = LocalAfterRender(TRUE)

\* load_directory answered with an error, or thrown
LoadTreeFail(i) ==
  /\ tasks[i].kind = "load" /\ tasks[i].pc = "tree"
  /\ op' = "tree_fail"
  /\ directoryTree' = NoTree
  /\ globalConfig' = None
  /\ localConfig' = None
  /\ config' = None
  /\ originalConfigRef' = None
  /\ loading' = FALSE
  /\ tasks' = RemoveAt(tasks, i)
  /\ UNCHANGED <<currentDirectory, selectedFiles, sessionOnlyExcludedDirs, configMode,
                 isConfigPanelDirty, envVars, selectionToRestoreRef>>
  /\ localSelectedFiles' = LocalAfterRender(FALSE)

\* loadDirectory after fetchConfigs has returned: the selection logic and
\* the finally block.  getEffectiveExcludedDirs and getDescendantFiles are
\* the ones of the render that created this loadDirectory.
RestoredSelection(t) ==
  LET filesToTry == Get(selectionToRestoreRef)
      currentEffectiveExcludes == EffectiveExcludedDirs(t.cl.config, t.cl.session)
      availableFiles == getDescendantFiles(TreeOf(t.tree), TreeRoot(t.tree),
                          currentEffectiveExcludes, t.cl.currentDirectory)
      Available(f) == InSeq(f, availableFiles)
  IN SelectSeq(filesToTry, Available)

AfterFetchConfigs(t) ==
  IF t.kind = "load"
    THEN /\ selectedFiles' = IF selectionToRestoreRef # None
                               THEN RestoredSelection(t) ELSE <<>>
         /\ selectionToRestoreRef' = None
         /\ loading' = FALSE
    ELSE UNCHANGED <<selectedFiles, selectionToRestoreRef, loading>>

\* get_configs answered with the profiles: up to set_config_mode
GetConfigsOk(i) ==
  /\ tasks[i].kind \in {"load", "fetch"} /\ tasks[i].pc = "configs"
  /\ op' = "configs_ok"
  /\ LET data == BackendGetConfigs(disk)
         fetchedGlobalConfig == transformConfig(data.global)
         fetchedLocalConfig == transformConfig(data.local)
         initialMode == ChooseMode(tasks[i].pref, fetchedGlobalConfig # None,
                                   fetchedLocalConfig # None, tasks[i].prefer)
     IN /\ globalConfig' = fetchedGlobalConfig
        /\ localConfig' = fetchedLocalConfig
        /\ tasks' = ReplaceAt(tasks, i,
                      [tasks[i] EXCEPT !.pc = "mode", !.fg = fetchedGlobalConfig,
                                       !.fl = fetchedLocalConfig, !.mode = initialMode])
  /\ UNCHANGED <<treeVars, selectedFiles, sessionOnlyExcludedDirs, config, configMode,
                 isConfigPanelDirty, originalConfigRef, envVars,
                 selectionToRestoreRef, loading>>
  /\ localSelectedFiles' = LocalAfterRender(FALSE)

\* get_configs answered with an error, or thrown
GetConfigsFail(i) ==
  /\ tasks[i].kind \in {"load", "fetch"} /\ tasks[i].pc = "configs"
  /\ op' = "configs_fail"
  /\ globalConfig' = None
  /\ localConfig' = None
  /\ config' = None
  /\ originalConfigRef' = None
  /\ AfterFetchConfigs(tasks[i])
  /\ tasks' = RemoveAt(tasks, i)
  /\ UNCHANGED <<treeVars, sessionOnlyExcludedDirs, configMode, isConfigPanelDirty,
                 envVars>>
  /\ localSelectedFiles' = LocalAfterRender(tasks[i].kind = "load")

\* fetchConfigs from the answer of set_config_mode to its end
FetchConfigsTail(t, created) ==
  LET activeConfig == IF t.mode = "global" THEN t.fg ELSE t.fl
  IN /\ globalConfig' = IF created /\ t.mode = "global"
                          THEN Some(defaultConfig) ELSE globalConfig
     /\ localConfig' = IF created /\ t.mode = "local"
                         THEN Some(defaultConfig) ELSE localConfig
     /\ configMode' = t.mode
     /\ config' = activeConfig
     /\ originalConfigRef' = activeConfig
     /\ isConfigPanelDirty' = FALSE

SetModeOk(i) ==
  /\ tasks[i].kind \in {"load", "fetch"} /\ tasks[i].pc = "mode"
  /\ op' = "load_done"
  /\ disk' = BackendSetConfigMode(disk, tasks[i].mode)
  /\ FetchConfigsTail(tasks[i],
       (tasks[i].mode = "local" /\ tasks[i].fl = None)
         \/ (tasks[i].mode = "global" /\ tasks[i].fg = None))
  /\ AfterFetchConfigs(tasks[i])
  /\ tasks' = RemoveAt(tasks, i)
  /\ UNCHANGED <<treeVars, sessionOnlyExcludedDirs, settings,
                 initialConfigModePreference>>
  /\ localSelectedFiles' = LocalAfterRender(tasks[i].kind = "load")

SetModeFail(i) ==
  /\ tasks[i].kind \in {"load", "fetch"} /\ tasks[i].pc = "mode"
  /\ op' = "load_done_mode_rejected"
  /\ FetchConfigsTail(tasks[i], FALSE)
  /\ AfterFetchConfigs(tasks[i])
  /\ tasks' = RemoveAt(tasks, i)
  /\ UNCHANGED <<treeVars, sessionOnlyExcludedDirs, envVars>>
  /\ localSelectedFiles' = LocalAfterRender(tasks[i].kind = "load")

-----------------------------------------------------------------------------
(* Save *)

\* handleSaveConfig of the render with closure cl, up to update_config.
\* originalConfigForComparison is read from the ref when the handler runs.
SaveTask(cl, caller) ==
  [Task("save", "update", cl) EXCEPT !.cmp = originalConfigRef, !.caller = caller]

\* handleSaveConfig: if (!config || !isConfigPanelDirty) return
SaveReturnsEarlyBug == config = None
SaveReturnsEarly == config = None \/ ~isConfigPanelDirty

\* handleSaveConfig called while there is nothing to save
handleSaveConfigReturn ==
  /\ currentDirectory # <<>>
  /\ ~loading
  /\ SaveReturnsEarly
  /\ Skip("save_noop")

handleSaveConfig ==
  /\ currentDirectory # <<>>
  /\ ~loading
  /\ ~SaveReturnsEarly
  /\ op' = "save"
  /\ loading' = TRUE
  /\ tasks' = Append(tasks, SaveTask(Closure, "user"))
  /\ UNCHANGED <<treeVars, selectedFiles, sessionOnlyExcludedDirs, cfgVars, envVars,
                 selectionToRestoreRef>>
  /\ localSelectedFiles' = LocalAfterRender(FALSE)

SavedProfile(t) == t.cl.config

\* update_config answered with success
UpdateConfigOk(i) ==
  /\ tasks[i].kind = "save" /\ tasks[i].pc = "update"
  /\ LET t == tasks[i]
         c == Get(t.cl.config)
         reload == fileFilteringChanged(c, t.cmp) /\ t.cl.currentDirectory # <<>>
     IN /\ op' = IF reload THEN "save_ok_reload" ELSE "save_ok"
        /\ disk' = BackendUpdateConfig(disk, t.cl.configMode, configToSend(c))
        /\ localConfig' = IF t.cl.configMode = "local" THEN SavedProfile(t)
                          ELSE localConfig
        /\ globalConfig' = IF t.cl.configMode = "local" THEN globalConfig
                           ELSE SavedProfile(t)
        /\ originalConfigRef' = SavedProfile(t)
        /\ isConfigPanelDirty' = FALSE
        /\ IF reload
             THEN /\ tasks' = ReplaceAt(tasks, i, [t EXCEPT !.pc = "timer"])
                  /\ loading' = IF t.caller = "generate" THEN FALSE ELSE loading
             ELSE /\ tasks' = RemoveAt(tasks, i)
                  /\ loading' = FALSE
  /\ UNCHANGED <<treeVars, selectedFiles, sessionOnlyExcludedDirs, config, configMode,
                 settings, initialConfigModePreference, selectionToRestoreRef>>
  /\ localSelectedFiles' = LocalAfterRender(FALSE)

\* update_config answered with an error, or thrown
UpdateConfigFailBug(i) ==
  /\ tasks[i].kind = "save" /\ tasks[i].pc = "update"
  /\ op' = "save_fail"
  /\ originalConfigRef' = tasks[i].cl.config
  /\ isConfigPanelDirty' = FALSE
  /\ loading' = FALSE
  /\ tasks' = RemoveAt(tasks, i)
  /\ UNCHANGED <<treeVars, selectedFiles, sessionOnlyExcludedDirs, config, globalConfig,
                 localConfig, configMode, envVars, selectionToRestoreRef>>
  /\ localSelectedFiles' = LocalAfterRender(FALSE)
UpdateConfigFail(i) ==
  /\ tasks[i].kind = "save" /\ tasks[i].pc = "update"
  /\ op' = "save_fail"
  /\ loading' = FALSE
  /\ tasks' = RemoveAt(tasks, i)
  /\ UNCHANGED <<treeVars, selectedFiles, sessionOnlyExcludedDirs, cfgVars, envVars,
                 selectionToRestoreRef>>
  /\ localSelectedFiles' = LocalAfterRender(FALSE)

\* the setTimeout of handleSaveConfig fires: loadDirectory up to load_directory
SaveTimerFires(i) ==
  /\ tasks[i].kind = "save" /\ tasks[i].pc = "timer"
  /\ op' = "save_reload"
  /\ sessionOnlyExcludedDirs' = <<>>
  /\ loading' = TRUE
  /\ tasks' = ReplaceAt(tasks, i,
                LoadTask(tasks[i].cl, tasks[i].cl.settings, tasks[i].cl.configMode,
                         "save"))
  /\ UNCHANGED <<treeVars, selectedFiles, cfgVars, envVars, selectionToRestoreRef>>
  /\ localSelectedFiles' = LocalAfterRender(FALSE)

-----------------------------------------------------------------------------
(* Mode switch *)

Other(mode) == IF mode = "global" THEN "local" ELSE "global"

\* if (isConfigPanelDirty) { ...; return; }
SwitchBlockedBug == FALSE
SwitchBlocked == isConfigPanelDirty

\* handleConfigModeSwitch(mode) up to set_config_mode.  It is called for the
\* other mode when that mode's profile is loaded and nothing is loading, as
\* the mode button does; the handler's own guard decides on unsaved edits.
handleConfigModeSwitch(mode) ==
  /\ currentDirectory # <<>>
  /\ ~loading
  /\ mode = Other(configMode)
  /\ IF mode = "local" THEN localConfig # None ELSE globalConfig # None
  /\ IF SwitchBlocked
       THEN Skip("switch_blocked")
       ELSE /\ op' = "switch"
            /\ sessionOnlyExcludedDirs' = <<>>
            /\ selectionToRestoreRef' = Some(selectedFiles)
            /\ loading' = TRUE
            /\ tasks' = Append(tasks, [Task("switch", "setmode", Closure)
                                         EXCEPT !.mode = mode])
            /\ UNCHANGED <<treeVars, selectedFiles, cfgVars, envVars>>
            /\ localSelectedFiles' = LocalAfterRender(FALSE)

\* stopLoading(): the loading flag it leaves, on the early returns of
\* handleConfigModeSwitch and in the finally block of initializeApp
stopLoadingBug == TRUE
stopLoading == FALSE

\* set_config_mode rejected, or thrown
SwitchModeFail(i) ==
  /\ tasks[i].kind = "switch"
  /\ op' = "switch_rejected"
  /\ loading' = stopLoading
  /\ tasks' = RemoveAt(tasks, i)
  /\ UNCHANGED <<treeVars, selectedFiles, sessionOnlyExcludedDirs, cfgVars, envVars,
                 selectionToRestoreRef>>
  /\ localSelectedFiles' = LocalAfterRender(FALSE)

\* the modePreference of loadDirectory(currentDirectory, settings, mode)
SwitchReloadPreferenceBug(t) == t.cl.configMode
SwitchReloadPreference(t) == t.mode

NewActiveConfig(t) ==
  IF t.mode = "local"
    THEN (IF t.cl.localConfig # None THEN t.cl.localConfig ELSE t.cl.globalConfig)
    ELSE (IF t.cl.globalConfig # None THEN t.cl.globalConfig ELSE t.cl.localConfig)

\* set_config_mode accepted: the UI state is switched and loadDirectory runs
\* up to load_directory
SwitchModeOk(i) ==
  /\ tasks[i].kind = "switch"
  /\ LET t == tasks[i]
     IN /\ op' = "switch_ok"
        /\ disk' = BackendSetConfigMode(disk, t.mode)
        /\ initialConfigModePreference' = t.mode
        /\ configMode' = t.mode
        /\ config' = NewActiveConfig(t)
        /\ originalConfigRef' = NewActiveConfig(t)
        /\ isConfigPanelDirty' = FALSE
        /\ IF t.cl.currentDirectory # <<>>
             THEN /\ sessionOnlyExcludedDirs' = <<>>
                  /\ loading' = TRUE
                  /\ tasks' = ReplaceAt(tasks, i, LoadTask(t.cl, t.cl.settings,
                                         SwitchReloadPreference(t), "switch"))
             ELSE /\ sessionOnlyExcludedDirs' = sessionOnlyExcludedDirs
                  /\ loading' = FALSE
                  /\ tasks' = RemoveAt(tasks, i)
  /\ UNCHANGED <<treeVars, selectedFiles, globalConfig, localConfig, settings,
                 selectionToRestoreRef>>
  /\ localSelectedFiles' = LocalAfterRender(FALSE)

-----------------------------------------------------------------------------
(* Generate and application settings *)

handleGenerateOutput ==
  /\ Mounted
  /\ ~loading
  /\ Len(selectedFiles) # 0
  /\ IF config = None
       THEN Skip("generate_no_config")
       ELSE /\ op' = "generate"
            /\ loading' = TRUE
            /\ tasks' = Append(tasks, Task("generate", "gen", Closure))
            /\ UNCHANGED <<treeVars, selectedFiles, sessionOnlyExcludedDirs, cfgVars,
                           envVars, selectionToRestoreRef>>
            /\ localSelectedFiles' = LocalAfterRender(FALSE)

GenerateFail(i) ==
  /\ tasks[i].kind = "generate"
  /\ op' = "generate_fail"
  /\ loading' = FALSE
  /\ tasks' = RemoveAt(tasks, i)
  /\ UNCHANGED <<treeVars, selectedFiles, sessionOnlyExcludedDirs, cfgVars, envVars,
                 selectionToRestoreRef>>
  /\ localSelectedFiles' = LocalAfterRender(FALSE)

\* handleGenerateOutput: config.store_files_chosen && configMode === 'local'
StoreFilesChosenGateBug(c, mode) == c.store_files_chosen
StoreFilesChosenGate(c, mode) == c.store_files_chosen /\ mode = "local"

\* generate_output answered with the output: the write-back of the selection
\* and exclusions, then handleSaveConfig of the same render
GenerateOk(i) ==
  /\ tasks[i].kind = "generate"
  /\ LET t == tasks[i]
         c == Get(t.cl.config)
         rel(i2) == MakeRelative(t.cl.selectedFiles[i2], t.cl.currentDirectory)
         newPreviousFiles == [i2 \in DOMAIN t.cl.selectedFiles |-> rel(i2)]
         newExcludedDirsCsv ==
           JoinCsv(SetOrder(SplitCsv(c.exclude_dirs) \o t.cl.session))
         changed == newPreviousFiles # c.previous_files
                      \/ newExcludedDirsCsv # c.exclude_dirs
         store == StoreFilesChosenGate(c, t.cl.configMode) /\ changed
     IN /\ op' = IF store THEN "generate_ok_store" ELSE "generate_ok"
        /\ config' = IF store
                       THEN Some([c EXCEPT !.previous_files = newPreviousFiles,
                                           !.exclude_dirs = newExcludedDirsCsv])
                       ELSE config
        /\ isConfigPanelDirty' = IF store THEN TRUE ELSE isConfigPanelDirty
        /\ sessionOnlyExcludedDirs' = IF store THEN <<>> ELSE sessionOnlyExcludedDirs
        /\ IF store /\ t.cl.isConfigPanelDirty
             THEN /\ tasks' = ReplaceAt(tasks, i, SaveTask(t.cl, "generate"))
                  /\ loading' = TRUE
             ELSE /\ tasks' = RemoveAt(tasks, i)
                  /\ loading' = FALSE
  /\ UNCHANGED <<treeVars, selectedFiles, globalConfig, localConfig, configMode,
                 originalConfigRef, envVars, selectionToRestoreRef>>
  /\ localSelectedFiles' = LocalAfterRender(FALSE)

\* handleSettingsSaved(newSettings): fetchConfigs is started, not awaited
handleSettingsSaved(newSetting) ==
  /\ op' = "settings"
  /\ settings' = newSetting
  /\ IF currentDirectory # <<>> /\ newSetting # settings
       THEN tasks' = Append(tasks,
                 [Task("fetch", "configs", Closure)
                    EXCEPT !.prefer = newSetting, !.pref = initialConfigModePreference])
       ELSE tasks' = tasks
  /\ UNCHANGED <<treeVars, selectedFiles, sessionOnlyExcludedDirs, cfgVars,
                 initialConfigModePreference, disk, selectionToRestoreRef, loading>>
  /\ localSelectedFiles' = LocalAfterRender(FALSE)

-----------------------------------------------------------------------------
(* Startup *)

\* The mount effect's initializeApp up to get_app_settings: startLoading
InitStart ==
  /\ currentDirectory = <<>>
  /\ directoryTree = NoTree
  /\ selectedFiles = <<>>
  /\ localSelectedFiles = <<>>
  /\ sessionOnlyExcludedDirs = <<>>
  /\ config = None
  /\ globalConfig = None
  /\ localConfig = None
  /\ configMode = "global"
  /\ isConfigPanelDirty = FALSE
  /\ originalConfigRef = None
  /\ settings = FALSE
  /\ initialConfigModePreference = "none"
  /\ selectionToRestoreRef = None
  /\ loading = TRUE
  /\ disk = [global |-> Some(DiskGlobal0), local |-> Some(DiskLocal0)]
  /\ tasks = <<Task("startup", "settings", Closure)>>
  /\ op = "startup"

\* get_app_settings answered without settings, or thrown: initialization halts
StartupSettingsFail(i) ==
  /\ tasks[i].kind = "startup" /\ tasks[i].pc = "settings"
  /\ op' = "startup_halted"
  /\ loading' = stopLoading
  /\ tasks' = RemoveAt(tasks, i)
  /\ UNCHANGED <<treeVars, selectedFiles, localSelectedFiles, sessionOnlyExcludedDirs,
                 cfgVars, envVars, selectionToRestoreRef>>

\* get_app_settings answered with the settings: up to get_session_state
StartupSettingsOk(i, defaultToLocalConfig) ==
  /\ tasks[i].kind = "startup" /\ tasks[i].pc = "settings"
  /\ op' = "startup_settings"
  /\ settings' = defaultToLocalConfig
  /\ tasks' = ReplaceAt(tasks, i, [tasks[i] EXCEPT !.pc = "session",
                                                    !.prefer = defaultToLocalConfig])
  /\ UNCHANGED <<treeVars, selectedFiles, localSelectedFiles, sessionOnlyExcludedDirs,
                 cfgVars, initialConfigModePreference, disk, selectionToRestoreRef,
                 loading>>

\* get_session_state answered with a last directory: loadDirectory up to
\* load_directory
StartupLastDirectory(i, lastConfigMode) ==
  /\ tasks[i].kind = "startup" /\ tasks[i].pc = "session"
  /\ op' = "startup_load"
  /\ initialConfigModePreference' = lastConfigMode
  /\ currentDirectory' = Root
  /\ sessionOnlyExcludedDirs' = <<>>
  /\ loading' = TRUE
  /\ tasks' = ReplaceAt(tasks, i,
                LoadTask(tasks[i].cl, tasks[i].prefer, lastConfigMode, "startup"))
  /\ UNCHANGED <<directoryTree, selectedFiles, localSelectedFiles, cfgVars, settings,
                 disk, selectionToRestoreRef>>

\* get_session_state answered without a last directory, or failed, and no
\* directory is chosen at the prompt: initializeApp ends
StartupNoDirectory(i, lastConfigMode) ==
  /\ tasks[i].kind = "startup" /\ tasks[i].pc = "session"
  /\ op' = "startup_idle"
  /\ initialConfigModePreference' = lastConfigMode
  /\ loading' = stopLoading
  /\ tasks' = RemoveAt(tasks, i)
  /\ UNCHANGED <<treeVars, selectedFiles, localSelectedFiles, sessionOnlyExcludedDirs,
                 cfgVars, settings, disk, selectionToRestoreRef>>

StartupSteps ==
  \/ \E i \in DOMAIN tasks : StartupSettingsFail(i)
  \/ \E i \in DOMAIN tasks : \E b \in BOOLEAN : StartupSettingsOk(i, b)
  \/ \E i \in DOMAIN tasks : \E m \in {"none", "local"} : StartupLastDirectory(i, m)
  \/ \E i \in DOMAIN tasks : \E m \in {"none", "local"} : StartupNoDirectory(i, m)

-----------------------------------------------------------------------------

\* A backend call returns, or a timer fires.
LoadSteps ==
  \/ \E i \in DOMAIN tasks : \E t \in TreeIdsAt(currentDirectory) : LoadTreeOk(i, t)
  \/ \E i \in DOMAIN tasks : LoadTreeFail(i)
  \/ \E i \in DOMAIN tasks : GetConfigsOk(i)
  \/ \E i \in DOMAIN tasks : GetConfigsFail(i)
  \/ \E i \in DOMAIN tasks : SetModeOk(i)
  \/ \E i \in DOMAIN tasks : SetModeFail(i)

SaveSteps ==
  \/ \E i \in DOMAIN tasks : UpdateConfigOk(i)
  \/ \E i \in DOMAIN tasks : UpdateConfigFail(i)
  \/ \E i \in DOMAIN tasks : SaveTimerFires(i)

SwitchSteps ==
  \/ \E i \in DOMAIN tasks : SwitchModeOk(i)
  \/ \E i \in DOMAIN tasks : SwitchModeFail(i)

GenerateSteps ==
  \/ \E i \in DOMAIN tasks : GenerateOk(i)
  \/ \E i \in DOMAIN tasks : GenerateFail(i)

\* The user waits for an operation to finish before the next input.
Idle == tasks = <<>>

\* The configuration profile state machine: the project is opened and
\* reloaded, the profile is edited, saved, reset and switched; no file is
\* selected.
UserConfig ==
  \/ \E f \in EditFields : \E v \in FieldValues(f) : ConfigPanelEdit(f, v)
  \/ handleResetConfig
  \/ handleToggleUIDirectoryExclusion(DirSub)
  \/ toggleSelectAll
  \/ handleSelectDirectory
  \/ handleRefreshDirectoryTree
  \/ handleSaveConfig
  \/ \E m \in {"global", "local"} : handleConfigModeSwitch(m)

Next == (Idle /\ UserConfig) \/ LoadSteps \/ SaveSteps \/ SwitchSteps

InitBoth ==
  /\ Init
  /\ settings = FALSE
  /\ initialConfigModePreference = "none"
  /\ disk = [global |-> Some(DiskGlobal0), local |-> Some(DiskLocal0)]

Spec == InitBoth /\ [][Next]_vars

\* The same with a timer that is set firing and a backend call that is made
\* being answered.
SpecLive ==
  /\ InitBoth /\ [][Next]_vars
  /\ WF_vars(LoadSteps) /\ WF_vars(SaveSteps) /\ WF_vars(SwitchSteps)

\* Selection and exclusion: files and folders are toggled, directories are
\* excluded, output is generated; the profile changes by the exclusion
\* toggle and the write-back of generate only.
UserSelect ==
  \/ \E p \in AllFiles : toggleFileSelection(p)
  \/ \E d \in AllDirs : toggleFolderSelection(d)
  \/ toggleSelectAll
  \/ usePreviousSelection
  \/ rerender
  \/ handleToggleUIDirectoryExclusion(DirSub)
  \/ handleSelectDirectory
  \/ handleRefreshDirectoryTree
  \/ \E m \in {"global", "local"} : handleConfigModeSwitch(m)
  \/ handleGenerateOutput

NextSel ==
  (Idle /\ UserSelect) \/ LoadSteps \/ SaveSteps \/ SwitchSteps \/ GenerateSteps

SpecSel == InitBoth /\ [][NextSel]_vars

\* Project load: every combination of stored profiles, mode preference and
\* application setting.
UserLoad ==
  \/ handleSelectDirectory
  \/ handleRefreshDirectoryTree
  \/ \E b \in BOOLEAN : handleSettingsSaved(b)

NextLoad == (Idle /\ UserLoad) \/ LoadSteps

SpecLoad == Init /\ [][NextLoad]_vars

\* A project that has been loaded in global mode, with a tree of up to three
\* levels and a stored global profile that excludes some of its folders; the
\* tree panel is then used without any reload.
ExcludeChoices ==
  {<<>>, << <<"sub">> >>, << <<"sub", "deep">> >>,
   << <<"sub">>, <<"sub", "deep">> >>}
InitTree ==
  /\ currentDirectory = Root
  /\ directoryTree \in {"full", "less", "deep"}
  /\ selectedFiles = <<>>
  /\ localSelectedFiles = <<>>
  /\ sessionOnlyExcludedDirs = <<>>
  /\ disk \in {[global |-> Some([DiskDefault EXCEPT !.exclude_dirs = ex]),
                local |-> Some(DiskLocal0)] : ex \in ExcludeChoices}
  /\ globalConfig = transformConfig(disk.global)
  /\ localConfig = transformConfig(disk.local)
  /\ config = globalConfig
  /\ originalConfigRef = globalConfig
  /\ configMode = "global"
  /\ isConfigPanelDirty = FALSE
  /\ settings = FALSE
  /\ initialConfigModePreference = "none"
  /\ selectionToRestoreRef = None
  /\ loading = FALSE
  /\ tasks = <<>>
  /\ op = "load_done"
UserTree ==
  \/ \E p \in AllFiles : toggleFileSelection(p)
  \/ \E d \in AllDirs : toggleFolderSelection(d)
  \/ toggleSelectAll
  \/ rerender
  \/ \E d \in AllDirs : handleToggleUIDirectoryExclusion(d)
NextTree == Idle /\ UserTree
SpecTree == InitTree /\ [][NextTree]_vars

\* The tree panel stays mounted and clickable while a load is in flight (the
\* loading overlay is drawn only after LOADING_DELAY, and DirectoryTree has
\* no disabled state): an exclusion button can be pressed between the steps
\* of a load.  Buttons with disabled={loading} wait for the load to end.
UserRace ==
  \/ handleSelectDirectory
  \/ handleRefreshDirectoryTree
  \/ handleSaveConfig
  \/ \E m \in {"global", "local"} : handleConfigModeSwitch(m)
NextRace ==
  \/ (Idle /\ UserRace)
  \/ handleToggleUIDirectoryExclusion(DirSub)
  \/ LoadSteps
  \/ SaveSteps
  \/ SwitchSteps
SpecRace == InitBoth /\ [][NextRace]_vars

\* The configuration panel with its Save handler called at any time, also
\* when nothing is to be saved.
UserSave ==
  \/ \E f \in EditFields : \E v \in FieldValues(f) : ConfigPanelEdit(f, v)
  \/ handleToggleUIDirectoryExclusion(DirSub)
  \/ handleSelectDirectory
  \/ handleSaveConfig
  \/ handleSaveConfigReturn
NextSave == (Idle /\ UserSave) \/ LoadSteps \/ SaveSteps
SpecSave == InitBoth /\ [][NextSave]_vars

\* Opening projects: the dialog answers with the project or with its folder
\* sub; files are selected and the mode is switched in between.
UserOpen ==
  \/ \E p \in AllFiles : toggleFileSelection(p)
  \/ rerender
  \/ \E d \in ProjectDirs : handleSelectDirectoryAt(d)
  \/ handleRefreshDirectoryTree
  \/ \E m \in {"global", "local"} : handleConfigModeSwitch(m)
NextOpen == (Idle /\ UserOpen) \/ LoadSteps \/ SwitchSteps
SpecOpen == InitBoth /\ [][NextOpen]_vars

\* Generating: files are selected, a folder is excluded, the
\* store_files_chosen field is edited and saved, the mode is switched and
\* the output is generated.
UserGenerate ==
  \/ toggleFileSelection(FileA)
  \/ handleToggleUIDirectoryExclusion(DirSub)
  \/ \E v \in BOOLEAN : ConfigPanelEdit("store_files_chosen", v)
  \/ handleSaveConfig
  \/ handleSelectDirectory
  \/ \E m \in {"global", "local"} : handleConfigModeSwitch(m)
  \/ handleGenerateOutput
NextGenerate ==
  (Idle /\ UserGenerate) \/ LoadSteps \/ SaveSteps \/ SwitchSteps \/ GenerateSteps
SpecGenerate == InitBoth /\ [][NextGenerate]_vars

\* Reloads with the user not waiting: every control is used as soon as the
\* interface offers it (the buttons are disabled while loading, the settings
\* dialog never is).  MaxOutstanding caps the operations in flight.
MaxOutstanding == 2
UserReload ==
  \/ handleSelectDirectory
  \/ handleRefreshDirectoryTree
  \/ \E b \in BOOLEAN : handleSettingsSaved(b)
NextReload == (Len(tasks) < MaxOutstanding /\ UserReload) \/ LoadSteps
SpecReload == InitBoth /\ [][NextReload]_vars

\* Saving with the tree in use: the panel and its buttons are disabled while
\* a save is in flight, the exclusion button of the tree is not.
UserSaveRace ==
  \/ \E v \in BOOLEAN : ConfigPanelEdit("store_files_chosen", v)
  \/ handleSelectDirectory
  \/ handleSaveConfig
NextSaveRace ==
  \/ (Idle /\ UserSaveRace)
  \/ handleToggleUIDirectoryExclusion(DirSub)
  \/ LoadSteps
  \/ SaveSteps
SpecSaveRace == InitBoth /\ [][NextSaveRace]_vars

\* The application from its start: startup, then every operation that sets
\* the loading flag, with every backend call answered and every timer firing.
UserLoading ==
  \/ toggleFileSelection(FileA)
  \/ handleToggleUIDirectoryExclusion(DirSub)
  \/ handleSelectDirectory
  \/ handleRefreshDirectoryTree
  \/ handleSaveConfig
  \/ \E m \in {"global", "local"} : handleConfigModeSwitch(m)
  \/ handleGenerateOutput
NextLoading ==
  \/ (Idle /\ UserLoading)
  \/ StartupSteps
  \/ LoadSteps
  \/ SaveSteps
  \/ SwitchSteps
  \/ GenerateSteps
SpecLoading ==
  /\ InitStart /\ [][NextLoading]_vars
  /\ WF_vars(StartupSteps) /\ WF_vars(LoadSteps) /\ WF_vars(SaveSteps)
  /\ WF_vars(SwitchSteps) /\ WF_vars(GenerateSteps)

-----------------------------------------------------------------------------
(* Properties *)

\* C1: once an operation has finished, no member of selectedFiles lies under
\* a directory of the effective exclusions (exclude_dirs of the active
\* profile united with the session set).
C1_SelectionAvoidsExclusions ==
  Idle =>
    \A i \in DOMAIN selectedFiles :
      ~IsUnderExcludedDir(selectedFiles[i], getEffectiveExcludedDirs, currentDirectory)

\* C2: in every state after a project has been opened and with a profile
\* loaded, isConfigPanelDirty is true exactly when the active profile
\* differs from originalConfigRef.
C2_DirtyIffDiffers ==
  (currentDirectory # <<>> /\ config # None) =>
    (isConfigPanelDirty <=> config # originalConfigRef)

\* C3: handleConfigModeSwitch called with unsaved edits changes neither the
\* mode, the active profile, originalConfigRef, the dirty flag, the loaded
\* and stored profiles, the session exclusions nor the selection, and starts no
\* backend call and no reload.
C3_BlockedSwitchChangesNothing ==
  [][(isConfigPanelDirty /\ op' \in {"switch", "switch_blocked"}) =>
       UNCHANGED <<configMode, config, originalConfigRef, isConfigPanelDirty,
                   globalConfig, localConfig, disk, sessionOnlyExcludedDirs,
                   selectedFiles, initialConfigModePreference,
                   selectionToRestoreRef, loading, treeVars, tasks>>]_vars

C3_Witness ==
  /\ op = "switch_blocked"
  /\ isConfigPanelDirty
  /\ config # originalConfigRef
  /\ tasks = <<>>

\* C4: when update_config fails, isConfigPanelDirty stays true and the active
\* profile, originalConfigRef and the loaded and stored profiles are as
\* before the save, so handleSaveConfig can be called again.
C4_SaveFailureKeepsEdits ==
  [][/\ op' \in {"save", "save_fail"} =>
          UNCHANGED <<config, originalConfigRef, isConfigPanelDirty, globalConfig,
                      localConfig, disk, configMode>>
     /\ op' = "save_fail" =>
          /\ isConfigPanelDirty'
          /\ \A i \in DOMAIN tasks : tasks[i].kind = "save" => tasks[i].cl.config = config'
          /\ ~loading' /\ config' # None /\ currentDirectory' # <<>>]_vars

C4_Witness ==
  /\ op = "save_fail"
  /\ isConfigPanelDirty
  /\ config # originalConfigRef
  /\ disk[configMode] # Some(configToSend(Get(config)))

\* C5: when update_config succeeds, originalConfigRef becomes the active
\* profile, the loaded and the stored profile of the active mode, and of no
\* other mode, become that value, and isConfigPanelDirty becomes false.
C5_SaveSuccess ==
  [][op' \in {"save_ok", "save_ok_reload"} =>
       /\ originalConfigRef' = config'
       /\ ~isConfigPanelDirty'
       /\ IF configMode' = "local"
            THEN localConfig' = config' /\ globalConfig' = globalConfig
            ELSE globalConfig' = config' /\ localConfig' = localConfig
       /\ disk'[configMode'] = Some(configToSend(Get(config')))
       /\ disk'[Other(configMode')] = disk[Other(configMode')]]_vars

\* C6: a successful save is followed by a reload of the tree exactly when a
\* filtering field of the saved profile differs from originalConfigRef as
\* it was before the save; the reload then starts and comes to its end, and
\* the session exclusions are empty when it has.
FilteringFields == {"include_file_types", "exclude_dirs"}

LoadEnded ==
  /\ op \in {"load_done", "load_done_mode_rejected", "tree_fail", "configs_fail"}
  /\ tasks = <<>>

C8_Reset ==
  [][op' = "reset" =>
       /\ config' = originalConfigRef
       /\ config' # None
       /\ ~isConfigPanelDirty'
       /\ UNCHANGED <<configMode, originalConfigRef, globalConfig, localConfig, disk,
                      sessionOnlyExcludedDirs, selectedFiles, tasks, loading,
                      selectionToRestoreRef, initialConfigModePreference,
                      treeVars>>]_vars

C8_Witness ==
  /\ op = "reset"
  /\ config = originalConfigRef
  /\ ~isConfigPanelDirty
  /\ sessionOnlyExcludedDirs # <<>>
  /\ selectedFiles # <<>>
  /\ configMode = "local"

\* C9: after an edit of a field the active profile has the new value in that
\* field, and the old ones elsewhere, and the dirty flag is the comparison of
\* the whole active profile with originalConfigRef: it is cleared by the
\* edit that puts the last differing field back and stays set while another
\* field differs.
EditSteps == {"edit_include", "edit_store", "toggle_persisted"}

C9_Edit ==
  [][op' \in EditSteps =>
       /\ config # None /\ config' # None
       /\ \E f \in EditFields \cup {"exclude_dirs"} :
            /\ Get(config')[f] # Get(config)[f]
            /\ Get(config') = [Get(config) EXCEPT ![f] = Get(config')[f]]
            /\ op' = "toggle_persisted" <=> f = "exclude_dirs"
            /\ op' = "edit_include" <=> f = "include_file_types"
       /\ isConfigPanelDirty' <=> (config' # originalConfigRef)]_vars

\* the field edited last is back at its original value, another one is not
C9_Witness ==
  /\ op = "edit_include"
  /\ Get(config).include_file_types = Get(originalConfigRef).include_file_types
  /\ Get(config).store_files_chosen # Get(originalConfigRef).store_files_chosen
  /\ isConfigPanelDirty

\* C10: fetchConfigs chooses the mode of the preference when the profile of
\* that mode exists; otherwise, with defaultToLocalConfig on, local when the
\* local profile exists and global when not, and with it off, global when
\* the global profile exists and local when not.
C10_ModeChoice ==
  [][op' = "configs_ok" =>
       \A i \in DOMAIN tasks :
         LET pref == tasks[i].pref
             preferLocal == tasks[i].prefer
             globalExists == disk.global # None
             localExists == disk.local # None
             preferenceExists == \/ pref = "global" /\ globalExists
                                 \/ pref = "local" /\ localExists
             mode == tasks'[i].mode
         IN /\ preferenceExists => mode = pref
            /\ (~preferenceExists /\ preferLocal /\ localExists) => mode = "local"
            /\ (~preferenceExists /\ preferLocal /\ ~localExists) => mode = "global"
            /\ (~preferenceExists /\ ~preferLocal /\ globalExists) => mode = "global"
            /\ (~preferenceExists /\ ~preferLocal /\ ~globalExists) => mode = "local"
            /\ tasks'[i].pc = "mode"]_vars

C10_Witness ==
  /\ op = "configs_ok"
  /\ \E i \in DOMAIN tasks :
       /\ tasks[i].pref = "global" /\ tasks[i].fg = None
       /\ tasks[i].prefer /\ tasks[i].fl = None
       /\ tasks[i].mode = "global"

\* C11: when a load has succeeded the dirty flag is false and the active
\* profile and originalConfigRef are the profile of the chosen mode, which
\* is a default-valued profile when the mode had none stored: the active
\* profile is not absent.
C11_LoadInstallsProfile ==
  [][op' = "load_done" =>
       /\ ~isConfigPanelDirty'
       /\ config' # None
       /\ config' = originalConfigRef'
       /\ config' = (IF configMode' = "local" THEN localConfig' ELSE globalConfig')
       /\ config' = transformConfig(disk'[configMode'])]_vars

\* C12: a step in which a tree reload fails, a profile load fails or a mode
\* change is rejected leaves the tree, the stored profiles, the active and
\* the original profile, the mode, the dirty flag, the selection and the
\* session exclusions as they were.
C12_FailedLoadKeepsState ==
  [][op' \in {"tree_fail", "configs_fail", "switch_rejected"} =>
       UNCHANGED <<directoryTree, globalConfig, localConfig, config,
                   originalConfigRef, configMode, isConfigPanelDirty,
                   selectedFiles, sessionOnlyExcludedDirs>>]_vars

\* C13: a load that restores a captured selection ends with exactly the
\* captured paths that are files of the new tree outside the exclusions in
\* force after the reload: exclude_dirs of the newly loaded profile together
\* with the current session exclusions.
C13_RestoreUsesNewExclusions ==
  [][(op' \in {"load_done", "load_done_mode_rejected"} /\ selectionToRestoreRef # None) =>
       LET E == EffectiveExcludedDirs(config', sessionOnlyExcludedDirs')
           Selectable(f) ==
             /\ f \in AllFiles \cap DOMAIN TreeOf(directoryTree')
             /\ ~IsUnderExcludedDir(f, E, currentDirectory')
       IN selectedFiles' = SelectSeq(Get(selectionToRestoreRef), Selectable)]_vars

\* C14: a reload of the tree that is not the first load of a project (manual
\* refresh, reload after a save, reload after a mode switch) ends with every
\* file selected that was selected before the reload and is still selectable
\* in the new tree.
C14_ReloadKeepsSelection ==
  [][op' \in {"load_done", "load_done_mode_rejected"} =>
       \A i \in DOMAIN tasks :
         (tasks[i].kind = "load" /\ tasks[i].pc = "mode"
            /\ tasks[i].caller \in {"refresh", "save", "switch"}) =>
           \A f \in AllFiles \cap DOMAIN TreeOf(directoryTree') :
             (/\ InSeq(f, selectedFiles)
              /\ ~IsUnderExcludedDir(f,
                    EffectiveExcludedDirs(config', sessionOnlyExcludedDirs'),
                    currentDirectory'))
               => InSeq(f, selectedFiles')]_vars

\* C15: after "Use Previous Selection" no selected path lies under an
\* effectively excluded directory and every selected path is a file of the
\* current tree.
C15_UsePreviousFilters ==
  [][op' = "use_previous" =>
       \A i \in DOMAIN selectedFiles' :
         /\ selectedFiles'[i] \in AllFiles \cap DOMAIN TreeOf(directoryTree')
         /\ ~IsUnderExcludedDir(selectedFiles'[i],
               EffectiveExcludedDirs(config', sessionOnlyExcludedDirs'),
               currentDirectory')]_vars

\* C16: in every state every member of the selection is a file (not a
\* folder) of the current tree.
C16_SelectionInTree ==
  \A i \in DOMAIN selectedFiles :
    /\ directoryTree # NoTree
    /\ selectedFiles[i] \in AllFiles \cap DOMAIN TreeOf(directoryTree)

C18_ToggleTwice ==
  [][op' = "toggle_file" =>
       \A p \in FilesInTree :
         (/\ ~IsUnderExcludedDir(p, getEffectiveExcludedDirs, currentDirectory)
          /\ selectedFiles' = handleFileSelection(ToggledFiles(localSelectedFiles, p)))
           => Range(FilterSelection(ToggledFiles(localSelectedFiles', p),
                      EffectiveExcludedDirs(config', sessionOnlyExcludedDirs'),
                      currentDirectory'))
              = Range(selectedFiles)]_vars

\* C19: a folder toggle whose folder has no selectable descendant files
\* changes nothing; otherwise, with D the selectable descendant files of the
\* folder, the new selection is the old one minus D when all of D was
\* selected and the old one plus D when not, so that selected files outside
\* D stay as they are.
C19_ToggleFolder ==
  [][/\ op' = "toggle_folder_empty" =>
          UNCHANGED <<selectedFiles, localSelectedFiles, sessionOnlyExcludedDirs,
                      cfgVars, treeVars, tasks>>
     /\ op' = "toggle_folder" =>
          \E folder \in DirsInTree :
            LET D == {f \in FilesInTree :
                        /\ IsProperPrefix(folder, f)
                        /\ ~IsUnderExcludedDir(f, getEffectiveExcludedDirs,
                                               currentDirectory)}
                old == Range(selectedFiles)
            IN /\ D # {}
               /\ Range(selectedFiles') =
                    IF D \subseteq old THEN old \ D ELSE old \cup D]_vars

\* C20: the select-all control sets the selection to exactly the files of
\* the tree outside the effectively excluded directories, each once, or, when
\* all of them were checked, to the empty selection; afterwards the
\* tri-state of every excluded folder is unchecked (none of the files it
\* counts is checked).
C20_SelectAll ==
  [][op' = "select_all" =>
       LET D == {f \in FilesInTree :
                   ~IsUnderExcludedDir(f, getEffectiveExcludedDirs, currentDirectory)}
           allChecked == /\ selectedFiles # <<>>
                         /\ D \subseteq Range(localSelectedFiles)
       IN /\ Range(selectedFiles') = IF allChecked THEN {} ELSE D
          /\ Len(selectedFiles') = Cardinality(Range(selectedFiles'))
          /\ \A d \in DirsInTree :
               MakeRelative(d, currentDirectory) \in getEffectiveExcludedDirs =>
                 \A f \in Range(getDescendantFiles(TreeOf(directoryTree'), d,
                                   EffectiveExcludedDirs(config', sessionOnlyExcludedDirs'),
                                   currentDirectory')) :
                   ~InSeq(f, localSelectedFiles')]_vars
\* select-all has selected a.txt alone while folder sub is excluded for the
\* session
C20_Witness ==
  /\ op = "select_all"
  /\ sessionOnlyExcludedDirs = <<<<"sub">>>>
  /\ directoryTree = "full"
  /\ selectedFiles = <<FileA>>
  /\ getFolderSelectionState(DirSub, localSelectedFiles) = "unchecked"

\* The selections a tri-state is computed for: every list of distinct files.
TestSelections ==
  {sel \in UNION {[1..n -> AllFiles] : n \in 0..Cardinality(AllFiles)} :
     \A i, j \in DOMAIN sel : i # j => sel[i] # sel[j]}
\* the selectable descendant files of a folder, as the tree panel computes them
DescendantSet(folder) ==
  Range(getDescendantFiles(CurTree, folder, getEffectiveExcludedDirs,
                           currentDirectory))

\* C21 (as stated): for every folder with selectable descendant set D and
\* every selection S the tri-state is checked iff D is a subset of S,
\* unchecked iff D and S are disjoint or D is empty, indeterminate otherwise.
C21_TriStateAsStated ==
  Mounted =>
    \A folder \in DirsInTree : \A sel \in TestSelections :
      LET D == DescendantSet(folder)
          S == Range(sel)
          st == getFolderSelectionState(folder, sel)
      IN /\ st = "checked" <=> D \subseteq S
         /\ st = "unchecked" <=> (D \cap S = {} \/ D = {})
         /\ st \in {"checked", "unchecked", "indeterminate"}
\* C21 (amended): the tri-state is checked iff D is not empty and a subset of
\* S, unchecked iff D and S are disjoint (in particular when D is empty),
\* indeterminate otherwise; an effectively excluded folder reports unchecked
\* whatever S is.
C21_TriState ==
  Mounted =>
    \A folder \in DirsInTree : \A sel \in TestSelections :
      LET D == DescendantSet(folder)
          S == Range(sel)
          st == getFolderSelectionState(folder, sel)
      IN /\ st = "checked" <=> (D # {} /\ D \subseteq S)
         /\ st = "unchecked" <=> D \cap S = {}
         /\ st = "indeterminate" <=> (D \cap S # {} /\ ~(D \subseteq S))
         /\ MakeRelative(folder, currentDirectory) \in getEffectiveExcludedDirs
              => st = "unchecked"
\* a folder is excluded while one of its files is in the selection, another
\* folder is checked and a third state, indeterminate, is shown for the root
C21_Witness ==
  /\ Mounted
  /\ directoryTree = "deep"
  /\ MakeRelative(DirDeep, currentDirectory) \in getEffectiveExcludedDirs
  /\ InSeq(FileC, selectedFiles)
  /\ getFolderSelectionState(DirDeep, selectedFiles) = "unchecked"
  /\ getFolderSelectionState(DirSub, localSelectedFiles) = "checked"
  /\ getFolderSelectionState(Root, localSelectedFiles) = "indeterminate"

ExclusionUniverse ==
  {MakeRelative(x, Root) : x \in (DOMAIN TreeDeep) \ {Root}}

\* C23: for the current tree and all exclusion sets E and E2 with E a subset
\* of E2, the files descendantFiles(root, E2) returns are among those of
\* descendantFiles(root, E); and a step that only adds folders to the
\* effective exclusions makes no file selectable that was not selectable
\* before.
C23_ExclusionMonotone ==
  /\ [](Mounted =>
         \A E2 \in SUBSET ExclusionUniverse : \A E \in SUBSET E2 :
           Range(getDescendantFiles(CurTree, Root, E2, currentDirectory))
             \subseteq Range(getDescendantFiles(CurTree, Root, E, currentDirectory)))
  /\ [][(/\ Mounted /\ Mounted'
         /\ directoryTree' = directoryTree
         /\ getEffectiveExcludedDirs \subseteq getEffectiveExcludedDirs')
          => Range(allFilePathsInTree') \subseteq Range(allFilePathsInTree)]_vars
\* a folder has just been added to the session exclusions and its file is
\* no longer among the selectable files
C23_Witness ==
  /\ op = "toggle_session"
  /\ directoryTree = "deep"
  /\ sessionOnlyExcludedDirs = << <<"sub", "deep">> >>
  /\ ExcludeDirsOf(config) = {}
  /\ allFilePathsInTree = <<FileA, FileB>>

\* C24: a toggle of the exclusion button of a folder whose relative path is
\* not in the exclude_dirs of the profile in edit flips that path in the
\* session set and nothing else: the active and the original profile, the
\* dirty flag, the mode and the stored profiles are as before.
C24_SessionToggleFrame ==
  [][op' = "toggle_session" =>
       /\ UNCHANGED <<config, originalConfigRef, isConfigPanelDirty, configMode,
                      globalConfig, localConfig, disk>>
       /\ \E d \in DirsInTree :
            LET rel == MakeRelative(d, currentDirectory)
            IN /\ rel \notin ExcludeDirsOf(config)
               /\ Range(sessionOnlyExcludedDirs') =
                    IF rel \in Range(sessionOnlyExcludedDirs)
                      THEN Range(sessionOnlyExcludedDirs) \ {rel}
                      ELSE Range(sessionOnlyExcludedDirs) \cup {rel}]_vars
\* a session toggle has been made while the profile has unsaved edits and
\* still excludes another folder
C24_Witness ==
  /\ op = "toggle_session"
  /\ sessionOnlyExcludedDirs # <<>>
  /\ isConfigPanelDirty
  /\ ExcludeDirsOf(config) # {}

\* C25: a toggle of the exclusion button of a folder whose relative path is
\* in the exclude_dirs of the profile in edit removes the path from the
\* active profile and leaves the edit state dirty; the path is not put into
\* the session set, and the original profile and the stored profiles are as
\* before.
C25_PersistedToggleEdits ==
  [][op' = "toggle_persisted" =>
       \E d \in DirsInTree :
         LET rel == MakeRelative(d, currentDirectory)
         IN /\ rel \in ExcludeDirsOf(config)
            /\ ExcludeDirsOf(config') = ExcludeDirsOf(config) \ {rel}
            /\ isConfigPanelDirty'
            /\ rel \notin Range(sessionOnlyExcludedDirs')
            /\ UNCHANGED <<originalConfigRef, globalConfig, localConfig,
                           configMode, disk>>]_vars

\* C26: when the load started by opening a directory, by a mode switch or by
\* a save that changed a filtering field has completed, the session
\* exclusion set is empty.
C26_SessionClearedByLoad ==
  [][op' \in {"load_done", "load_done_mode_rejected"} =>
       \A i \in DOMAIN tasks :
         (tasks[i].kind = "load" /\ tasks[i].pc = "mode"
            /\ tasks[i].caller \in {"user", "switch", "save"})
           => sessionOnlyExcludedDirs' = <<>>]_vars

\* the folders excluded by the profile of a mode, as stored and as held in
\* memory
StoredExclusions(mode) ==
  (IF disk[mode] = None THEN {} ELSE Range(Get(disk[mode]).exclude_dirs))
    \cup ExcludeDirsOf(IF mode = "local" THEN localConfig ELSE globalConfig)

\* C27: a folder that is excluded for the session only (it is in the session
\* set and not in the active profile's exclude_dirs) is never put by a step
\* into the active profile, the original profile or a stored profile, unless
\* the step installs the profile of a mode that already held it.
C27_SessionNeverPersisted ==
  [][\A d \in Range(sessionOnlyExcludedDirs) \ ExcludeDirsOf(config) :
       /\ d \in ExcludeDirsOf(config') => d \in StoredExclusions(configMode')
       /\ d \in ExcludeDirsOf(originalConfigRef') =>
            (d \in ExcludeDirsOf(originalConfigRef) \/ d \in StoredExclusions(configMode'))
       /\ \A m \in {"global", "local"} :
            (disk'[m] # None /\ d \in Range(Get(disk'[m]).exclude_dirs))
              => (disk[m] # None /\ d \in Range(Get(disk[m]).exclude_dirs))]_vars

\* C28: a Save that follows a successful Save with no edit in between is a
\* no-op: a successful save leaves the profile clean, with the active, the
\* original and the stored profile of the mode equal; only an edit makes it
\* dirty again; and Save on a clean profile changes neither the stored
\* profiles, the active or original profile nor the dirty flag and starts
\* no save and no reload.
C28_SaveTwice ==
  /\ [][op' \in {"save_ok", "save_ok_reload"} =>
          /\ ~isConfigPanelDirty'
          /\ config' = originalConfigRef'
          /\ config' # None
          /\ disk'[configMode'] = Some(configToSend(Get(config')))]_vars
  /\ [][(~isConfigPanelDirty /\ isConfigPanelDirty') =>
          op' \in {"edit_include", "edit_store", "toggle_persisted"}]_vars
  /\ [][(op' \in {"save", "save_noop"} /\ ~isConfigPanelDirty) =>
          /\ op' = "save_noop"
          /\ UNCHANGED <<disk, config, originalConfigRef, isConfigPanelDirty,
                         globalConfig, localConfig, configMode, directoryTree,
                         selectedFiles, sessionOnlyExcludedDirs, loading, tasks>>]_vars
\* Save has been called again after a save that changed the stored global
\* profile, with nothing edited since
C28_Witness ==
  /\ op = "save_noop"
  /\ ~isConfigPanelDirty
  /\ config # None
  /\ disk.global # Some(DiskGlobal0)
  /\ disk.global = Some(configToSend(Get(config)))

\* C29: an edit of the profile that has not been saved leaves the effective
\* exclusions as they were: every step that edits the active profile (a panel
\* field or the exclude-directories field through the exclusion button of a
\* persisted folder) keeps getEffectiveExcludedDirs, and with it the files
\* every folder offers to selection and tri-state, unchanged.
C29_UnsavedEditKeepsExclusions ==
  [][op' \in {"edit_include", "edit_store", "toggle_persisted"} =>
       /\ getEffectiveExcludedDirs' = getEffectiveExcludedDirs
       /\ \A d \in AllDirs :
            (d \in DOMAIN TreeOf(directoryTree)) =>
              getDescendantFiles(TreeOf(directoryTree'), d,
                                 EffectiveExcludedDirs(config', sessionOnlyExcludedDirs'),
                                 currentDirectory')
                = getDescendantFiles(TreeOf(directoryTree), d,
                                     getEffectiveExcludedDirs, currentDirectory)]_vars

\* C30: when the load started by opening a project directory for the first
\* time, or by choosing a directory other than the current one, has
\* completed, the selection is empty, whatever happened before the directory
\* was opened.
C30_OpenClearsSelection ==
  [][op' \in {"load_done", "load_done_mode_rejected"} =>
       \A i \in DOMAIN tasks :
         (/\ tasks[i].kind = "load" /\ tasks[i].pc = "mode"
          /\ tasks[i].caller = "user"
          /\ tasks[i].cl.currentDirectory # currentDirectory')
           => selectedFiles' = <<>>]_vars

\* C31: store_files_chosen gates the write-back of generate: when
\* generate_output has succeeded while store_files_chosen of the active
\* profile is false or the mode is global, the active profile, the original,
\* the dirty flag, the session exclusions and the selection are left as they
\* were and no save is started; and a successful generate that changes the
\* active profile, the dirty flag or the session exclusions happens with
\* store_files_chosen true in local mode.
C31_StoreFilesChosenGate ==
  [][op' \in {"generate_ok", "generate_ok_store"} =>
       LET gate == Get(config).store_files_chosen /\ configMode = "local"
       IN /\ ~gate =>
               /\ UNCHANGED <<config, originalConfigRef, isConfigPanelDirty,
                              sessionOnlyExcludedDirs, selectedFiles, disk>>
               /\ tasks' = <<>>
          /\ (\/ config' # config
              \/ isConfigPanelDirty' # isConfigPanelDirty
              \/ sessionOnlyExcludedDirs' # sessionOnlyExcludedDirs) => gate]_vars
\* generate has succeeded in local mode with store_files_chosen off, a
\* selection that differs from previous_files and a session exclusion
C31_Witness ==
  /\ op = "generate_ok"
  /\ configMode = "local"
  /\ ~Get(config).store_files_chosen
  /\ selectedFiles = <<FileA>>
  /\ Get(config).previous_files # << <<"a.txt">> >>
  /\ sessionOnlyExcludedDirs # <<>>

\* C32: when a successful generate in local mode with store_files_chosen on
\* has written the selection and the effective exclusions back into the
\* active profile, then once the operation is complete (the write-back step
\* itself when it starts no save, or else the successful answer to the save
\* it started) the stored local profile is the updated active profile,
\* whose previous_files are the root-relative selected paths, the original
\* equals it and the dirty flag is false.
C32_GenerateStoresProfile ==
  [][(\/ op' = "generate_ok_store" /\ tasks' = <<>>
      \/ /\ op' \in {"save_ok", "save_ok_reload"}
         /\ \E i \in DOMAIN tasks :
              tasks[i].kind = "save" /\ tasks[i].caller = "generate") =>
       /\ config' # None
       /\ Get(config').previous_files =
            [i \in DOMAIN selectedFiles' |->
               MakeRelative(selectedFiles'[i], currentDirectory')]
       /\ disk'.local = Some(configToSend(Get(config')))
       /\ originalConfigRef' = config'
       /\ ~isConfigPanelDirty']_vars

\* C33: unsaved edits are never discarded silently: a step taken while the
\* dirty flag is set that changes the mode, the original profile or the
\* active profile, or clears the dirty flag, is a successful save, a reset or
\* an edit of the user.
C33_EditsNotDiscarded ==
  [][(/\ isConfigPanelDirty
      /\ \/ configMode' # configMode
         \/ config' # config
         \/ originalConfigRef' # originalConfigRef
         \/ ~isConfigPanelDirty') =>
       op' \in {"save_ok", "save_ok_reload", "reset",
                "edit_include", "edit_store", "toggle_persisted"}]_vars

\* the reloads in flight: loadDirectory calls (tree scan, then profile
\* fetch) and fetchConfigs calls started by a settings change
OutstandingReloads ==
  {i \in DOMAIN tasks : tasks[i].kind \in {"load", "fetch"}}

\* C34: at most one reload is outstanding at any time.
C34_OneReloadOutstanding == Cardinality(OutstandingReloads) <= 1

\* C35: when update_config is answered with success, the active profile is
\* left as it is, edits made while the request was in flight included, and
\* the dirty flag is then set exactly when the active profile differs from
\* the profile that was written.
C35_EditDuringSave ==
  [][op' \in {"save_ok", "save_ok_reload"} =>
       \A i \in DOMAIN tasks :
         (tasks[i].kind = "save" /\ tasks[i].pc = "update") =>
           /\ config' = config
           /\ isConfigPanelDirty' <=> (config' # tasks[i].cl.config)]_vars

\* C36: whenever no operation is in flight, a profile is loaded and the
\* dirty flag is not set, the active profile is the profile held for the
\* current mode (the one last fetched or saved for it).
C36_CleanActiveIsStored ==
  (tasks = <<>> /\ config # None /\ ~isConfigPanelDirty) =>
    config = (IF configMode = "local" THEN localConfig ELSE globalConfig)

\* the state a press of the exclusion button of the folder with relative
\* path r leads to, from a profile cfg with original orig, a session set
\* sess and a dirty flag
ToggledAgain(cfg, orig, sess, dirty, r) ==
  IF r \in ExcludeDirsOf(cfg)
    THEN LET updatedConfig ==
               [Get(cfg) EXCEPT !.exclude_dirs =
                  JoinCsv(Remove(SetOrder(SplitCsv(Get(cfg).exclude_dirs)), r))]
         IN [persisted |-> ExcludeDirsOf(Some(updatedConfig)),
             session |-> Range(sess) \ {r},
             dirty |-> IsNowDirty(updatedConfig, orig, "exclude_dirs")]
    ELSE [persisted |-> ExcludeDirsOf(cfg),
          session |-> IF InSeq(r, sess) THEN Range(sess) \ {r}
                      ELSE Range(sess) \cup {r},
          dirty |-> dirty]

\* C37: pressing the exclusion button of a folder twice returns the persisted
\* exclusions of the profile in edit, the session exclusions, the effective
\* exclusions and the dirty flag to their values before the first press:
\* after every press on a folder, a second press on the same folder leads to
\* the values before the first.
C37_ToggleExclusionTwice ==
  [][op' \in {"toggle_persisted", "toggle_session"} =>
       \A d \in AllDirs :
         LET r == MakeRelative(d, currentDirectory)
             pressed ==
               \/ (r \in ExcludeDirsOf(config)) # (r \in ExcludeDirsOf(config'))
               \/ InSeq(r, sessionOnlyExcludedDirs)
                    # InSeq(r, sessionOnlyExcludedDirs')
             again == ToggledAgain(config', originalConfigRef',
                                   sessionOnlyExcludedDirs',
                                   isConfigPanelDirty', r)
         IN pressed =>
              /\ again.persisted = ExcludeDirsOf(config)
              /\ again.session = Range(sessionOnlyExcludedDirs)
              /\ again.persisted \cup again.session = getEffectiveExcludedDirs
              /\ again.dirty = isConfigPanelDirty]_vars

\* C38: with every backend call answered and every timer firing, the loading
\* flag, once set, is eventually cleared.
C38_LoadingEventuallyCleared == loading ~> ~loading
\* a mode switch that the backend rejected has returned early with the
\* loading flag cleared
C38_Witness ==
  /\ op = "switch_rejected"
  /\ ~loading
  /\ tasks = <<>>

====
